---------------------------- MODULE Spec2Model ----------------------------
(***************************************************************************)
(* A model of the text statistics (src/src/stats.cpp) and of the boundary  *)
(* location (src/src/stri_search_other_locate.cpp) of stringi.             *)
(*                                                                         *)
(* A text element is a sequence of bytes (integers 0..255) or NA_STRING.   *)
(* Byte offsets are 0-based as in the C code: byte j of cs is cs[j+1].     *)
(***************************************************************************)
EXTENDS Integers, Sequences, FiniteSets, TLC

VARIABLES
    call,           \* which entry point runs: "general", "latex", "boundaries", "words"
    str,            \* the character vector str
    boundary,       \* the character vector boundary (stri_locate_boundaries)
    i,              \* index of the element the outer loop is at
    pc,             \* position of the call
    err,            \* the error the call was aborted with ("" if none)
    stats,          \* the accumulator INTEGER(ret) of the statistics calls
    j,              \* byte cursor of the inner loop
    state,          \* tokenizer state of stri_stats_latex
    word,           \* whether stri_stats_latex is inside a word
    AnyNonWhite,    \* per-element flag of stri_stats_general
    briter,         \* the BreakIterator pointer: NULL or a handle
    str_text,       \* the UText pointer: NULL or a handle
    last_boundary,  \* kind of the iterator opened last
    ret,            \* the result list of the location calls
    nset,           \* how many times SET_VECTOR_ELT stored into each index of ret
    heap            \* the external resources: handles created, handles released

vars == <<call, str, boundary, i, pc, err, stats, j, state, word, AnyNonWhite,
          briter, str_text, last_boundary, ret, nset, heap>>

statsVars  == <<stats, j, state, word, AnyNonWhite>>
locateVars == <<boundary, briter, str_text, last_boundary, ret, nset, heap>>

---------------------------------------------------------------------------
(* Bounds of the model.                                                    *)

\* The size of a character vector: two per element plus three per lexical
\* fragment its texts are made of.
MaxSize == 11

\* The size of the input of a location call: two per element plus the
\* number of fragments of the texts.
MaxLocateSize == 7

---------------------------------------------------------------------------
(* Values of the host runtime and of ICU.                                  *)

\* NA_STRING is told from every text by a value no byte has.
NA_STRING  == << -1 >>
U_SENTINEL == -1

\* U8_NEXT of ICU's utf8.h on the byte sequence cs at offset j0: the code
\* point read (U_SENTINEL for an ill-formed sequence) and the offset after it.
\* One- and two-byte forms are decoded; the inputs hold no lead byte >= 0xE0.
U8_NEXT(cs, j0) ==
    LET b == cs[j0 + 1] IN
    IF b < 128 THEN [c |-> b, j |-> j0 + 1]
    ELSE IF b >= 194 /\ b <= 223 /\ j0 + 1 < Len(cs)
            /\ cs[j0 + 2] >= 128 /\ cs[j0 + 2] <= 191
         THEN [c |-> (b - 192) * 64 + (cs[j0 + 2] - 128), j |-> j0 + 2]
         ELSE [c |-> U_SENTINEL, j |-> j0 + 1]

\* u_hasBinaryProperty(c, UCHAR_WHITE_SPACE), for c < 256
IsWhiteSpace(c) == c \in {9, 10, 11, 12, 13, 32, 133, 160}

\* u_isUAlphabetic(c), for c < 256
IsUAlphabetic(c) ==
    \/ c >= 65 /\ c <= 90
    \/ c >= 97 /\ c <= 122
    \/ c \in {170, 181, 186}
    \/ c >= 192 /\ c <= 255 /\ c \notin {215, 247}

\* u_isdigit(c), for c < 256
IsDigit(c) == c >= 48 /\ c <= 57

\* u_ispunct(c): general categories P*, for c < 256.  The symbols $ + < = >
\* ^ ` | ~ are of the categories S*, not P*.
IsPunct(c) ==
    c \in {33, 34, 35, 37, 38, 39, 40, 41, 42, 44, 45, 46, 47, 58, 59, 63, 64,
           91, 92, 93, 95, 123, 125, 161, 167, 171, 182, 183, 187, 191}

---------------------------------------------------------------------------
(* The inputs: texts built from lexical fragments.                         *)

\* Fragments of the texts given to stri_stats_general.
GeneralAtoms ==
    { <<97>>,          \* a
      <<32>>,          \* space
      <<9>>,           \* tab
      <<13>>,          \* carriage return
      <<10>>,          \* line feed
      <<195, 169>>,    \* U+00E9 in two bytes
      <<169>> }        \* a trail byte alone: ill-formed

\* Fragments of the texts given to stri_stats_latex.
LatexAtoms ==
    { <<92>>,                        \* backslash
      <<92, 34>>,                    \* backslash and ": a control symbol
      <<37>>,                        \* %
      <<98, 101, 103, 105, 110>>,    \* begin
      <<101, 110, 100>>,             \* end
      <<101, 103, 105, 110>>,        \* egin
      <<97>>,                        \* a
      <<49>>,                        \* 1
      <<32>>,                        \* space
      <<125>>,                       \* }
      <<126>>,                       \* ~
      <<10>>,                        \* line feed
      <<195, 169>>,                  \* U+00E9 in two bytes
      <<169>> }                      \* a trail byte alone: ill-formed

\* The texts made of exactly n fragments of Atoms.
RECURSIVE TextsOf(_, _)
TextsOf(Atoms, n) ==
    IF n = 0 THEN { <<>> }
    ELSE { t \o a : t \in TextsOf(Atoms, n - 1), a \in Atoms }

\* The character vectors of exactly k elements (texts or NA) whose texts
\* hold at most n fragments together.
RECURSIVE VectorsOf(_, _, _)
VectorsOf(Atoms, k, n) ==
    IF k = 0 THEN { <<>> }
    ELSE { <<NA_STRING>> \o v : v \in VectorsOf(Atoms, k - 1, n) }
         \cup UNION { { <<t>> \o v : t \in TextsOf(Atoms, m),
                                     v \in VectorsOf(Atoms, k - 1, n - m) }
                      : m \in 0..n }

\* The character vectors of size at most size.
Vectors(Atoms, size) ==
    UNION { VectorsOf(Atoms, k, (size - 2 * k) \div 3) : k \in 0..(size \div 2) }


---------------------------------------------------------------------------
(* stri_stats_general                                                      *)

gsNumLines         == 0
gsNumLinesNonEmpty == 1
gsNumChars         == 2
gsNumCharsNonWhite == 3
gsAll              == 4

\* error(MSG__NEWLINE_FOUND): the EmbeddedNewlineError of the specification
MSG__NEWLINE_FOUND == "MSG__NEWLINE_FOUND"

ZeroStats(n) == [k \in 0..(n - 1) |-> 0]

\* GeneralChar with the space and the tab taken for the only white space.
GeneralChar_SpaceTabOnly(cs, s) ==
    LET r == U8_NEXT(cs, s.j) IN
    IF r.c = 10
    THEN [s EXCEPT !.j = r.j, !.err = MSG__NEWLINE_FOUND]
    ELSE IF r.c \notin {32, 9}
         THEN [s EXCEPT !.j = r.j,
                        !.stats[gsNumChars] = @ + 1,
                        !.stats[gsNumCharsNonWhite] = @ + 1,
                        !.AnyNonWhite = TRUE]
         ELSE [s EXCEPT !.j = r.j, !.stats[gsNumChars] = @ + 1]

\* One iteration of the inner loop over the code points of cs, on the
\* locals s = [stats, j, AnyNonWhite, err].
GeneralChar(cs, s) ==
    LET r == U8_NEXT(cs, s.j) IN
    IF r.c = 10
    THEN [s EXCEPT !.j = r.j, !.err = MSG__NEWLINE_FOUND]
    ELSE IF ~IsWhiteSpace(r.c)
         THEN [s EXCEPT !.j = r.j,
                        !.stats[gsNumChars] = @ + 1,
                        !.stats[gsNumCharsNonWhite] = @ + 1,
                        !.AnyNonWhite = TRUE]
         ELSE [s EXCEPT !.j = r.j, !.stats[gsNumChars] = @ + 1]

\* The inner loop run to its end or to the error.
RECURSIVE GeneralScan(_, _)
GeneralScan(cs, s) ==
    IF s.err # "" \/ s.j >= Len(cs) THEN s
    ELSE GeneralScan(cs, GeneralChar(cs, s))

\* The body of the outer loop for the element curs, from the accumulator st.
GeneralElement(st, curs) ==
    IF curs = NA_STRING THEN [stats |-> st, err |-> ""]
    ELSE LET s == GeneralScan(curs,
                      [stats |-> [st EXCEPT ![gsNumLines] = @ + 1],
                       j |-> 0, AnyNonWhite |-> FALSE, err |-> ""])
         IN  IF s.err # "" THEN [stats |-> s.stats, err |-> s.err]
             ELSE IF s.AnyNonWhite
                  THEN [stats |-> [s.stats EXCEPT ![gsNumLinesNonEmpty] = @ + 1],
                        err |-> ""]
                  ELSE [stats |-> s.stats, err |-> ""]

\* The outer loop over the elements k.. of v.
RECURSIVE GeneralFrom(_, _, _)
GeneralFrom(v, k, st) ==
    IF k > Len(v) THEN [stats |-> st, err |-> ""]
    ELSE LET e == GeneralElement(st, v[k]) IN
         IF e.err # "" THEN e ELSE GeneralFrom(v, k + 1, e.stats)

\* The call as a function of its argument: the record returned, or the error.
stri_stats_general(v) == GeneralFrom(v, 1, ZeroStats(gsAll))

---------------------------------------------------------------------------
(* stri_stats_latex                                                        *)

stStandard        == 0
stComment         == 1
stControlSequence == 3
stControlSymbol   == 4
stCommand         == 5
stEnvironment     == 6

lsCharsWord     == 0
lsCharsCmdEnvir == 1
lsCharsWhite    == 2
lsWords         == 3
lsCmd           == 4
lsEnvir         == 5
lsAll           == 6

MSG__DEBUG == "DEBUG: stri_stats_latex() - this shouldn't happen :-("

\* !strncmp(cs+j0, lit, Len(lit)) on the NUL-terminated cs
StrNCmpEq(cs, j0, lit) ==
    /\ j0 + Len(lit) <= Len(cs)
    /\ \A k \in 1..Len(lit) : cs[j0 + k] = lit[k]

\* case stStandard, were every backslash to close the word.
LatexStandard_AlwaysCloses(cs, s, c, jn) ==
    IF c = 92
    THEN [s EXCEPT !.j = jn, !.state = stControlSequence,
                   !.stats[lsCharsCmdEnvir] = @ + 1,
                   !.word = FALSE]
    ELSE IF c = 37
    THEN [s EXCEPT !.j = jn, !.state = stComment]
    ELSE IF IsUAlphabetic(c) \/ IsDigit(c)
    THEN IF IsUAlphabetic(c) /\ ~s.word
         THEN [s EXCEPT !.j = jn, !.word = TRUE,
                        !.stats[lsWords] = @ + 1,
                        !.stats[lsCharsWord] = @ + 1]
         ELSE [s EXCEPT !.j = jn, !.stats[lsCharsWord] = @ + 1]
    ELSE [s EXCEPT !.j = jn, !.stats[lsCharsWhite] = @ + 1, !.word = FALSE]

\* case stStandard, the code point c read, the cursor at jn behind it
LatexStandard(cs, s, c, jn) ==
    IF c = 92
    THEN LET closes == /\ jn < Len(cs)
                       /\ LET cnext == U8_NEXT(cs, jn).c
                          IN  ~IsPunct(cnext) \/ cnext = 126 \/ cnext = 94
         IN  [s EXCEPT !.j = jn, !.state = stControlSequence,
                       !.stats[lsCharsCmdEnvir] = @ + 1,
                       !.word = IF closes THEN FALSE ELSE @]
    ELSE IF c = 37
    THEN [s EXCEPT !.j = jn, !.state = stComment]
    ELSE IF IsUAlphabetic(c) \/ IsDigit(c)
    THEN IF IsUAlphabetic(c) /\ ~s.word
         THEN [s EXCEPT !.j = jn, !.word = TRUE,
                        !.stats[lsWords] = @ + 1,
                        !.stats[lsCharsWord] = @ + 1]
         ELSE [s EXCEPT !.j = jn, !.stats[lsCharsWord] = @ + 1]
    ELSE [s EXCEPT !.j = jn, !.stats[lsCharsWhite] = @ + 1, !.word = FALSE]

\* case stControlSequence, were \end counted as an environment as \begin is.
LatexControlSequence_EndCounts(cs, s, c, jn) ==
    IF IsUAlphabetic(c)
    THEN IF c = 98 /\ StrNCmpEq(cs, jn, <<101, 103, 105, 110>>)
         THEN [s EXCEPT !.j = jn + 4, !.state = stEnvironment,
                        !.stats[lsEnvir] = @ + 1,
                        !.stats[lsCharsCmdEnvir] = @ + 5]
         ELSE IF c = 101 /\ StrNCmpEq(cs, jn, <<110, 100>>)
         THEN [s EXCEPT !.j = jn + 2, !.state = stEnvironment,
                        !.stats[lsEnvir] = @ + 1,
                        !.stats[lsCharsCmdEnvir] = @ + 3]
         ELSE [s EXCEPT !.j = jn, !.state = stCommand,
                        !.stats[lsCmd] = @ + 1,
                        !.stats[lsCharsCmdEnvir] = @ + 1]
    ELSE [s EXCEPT !.j = jn, !.state = stStandard,
                   !.stats[lsCmd] = @ + 1,
                   !.stats[lsCharsCmdEnvir] = @ + 1]

\* case stControlSequence, were egin looked for behind every letter.
LatexControlSequence_AnyLetterBegin(cs, s, c, jn) ==
    IF IsUAlphabetic(c)
    THEN IF StrNCmpEq(cs, jn, <<101, 103, 105, 110>>)
         THEN [s EXCEPT !.j = jn + 4, !.state = stEnvironment,
                        !.stats[lsEnvir] = @ + 1,
                        !.stats[lsCharsCmdEnvir] = @ + 5]
         ELSE IF c = 101 /\ StrNCmpEq(cs, jn, <<110, 100>>)
         THEN [s EXCEPT !.j = jn + 2, !.state = stEnvironment,
                        !.stats[lsCharsCmdEnvir] = @ + 3]
         ELSE [s EXCEPT !.j = jn, !.state = stCommand,
                        !.stats[lsCmd] = @ + 1,
                        !.stats[lsCharsCmdEnvir] = @ + 1]
    ELSE [s EXCEPT !.j = jn, !.state = stStandard,
                   !.stats[lsCmd] = @ + 1,
                   !.stats[lsCharsCmdEnvir] = @ + 1]

\* case stControlSequence, were the control symbol given the state of its
\* own.
LatexControlSequence_ToControlSymbol(cs, s, c, jn) ==
    IF IsUAlphabetic(c)
    THEN IF c = 98 /\ StrNCmpEq(cs, jn, <<101, 103, 105, 110>>)
         THEN [s EXCEPT !.j = jn + 4, !.state = stEnvironment,
                        !.stats[lsEnvir] = @ + 1,
                        !.stats[lsCharsCmdEnvir] = @ + 5]
         ELSE IF c = 101 /\ StrNCmpEq(cs, jn, <<110, 100>>)
         THEN [s EXCEPT !.j = jn + 2, !.state = stEnvironment,
                        !.stats[lsCharsCmdEnvir] = @ + 3]
         ELSE [s EXCEPT !.j = jn, !.state = stCommand,
                        !.stats[lsCmd] = @ + 1,
                        !.stats[lsCharsCmdEnvir] = @ + 1]
    ELSE [s EXCEPT !.j = jn, !.state = stControlSymbol,
                   !.stats[lsCmd] = @ + 1,
                   !.stats[lsCharsCmdEnvir] = @ + 1]

\* case stControlSequence
LatexControlSequence(cs, s, c, jn) ==
    IF IsUAlphabetic(c)
    THEN IF c = 98 /\ StrNCmpEq(cs, jn, <<101, 103, 105, 110>>)
         THEN [s EXCEPT !.j = jn + 4, !.state = stEnvironment,
                        !.stats[lsEnvir] = @ + 1,
                        !.stats[lsCharsCmdEnvir] = @ + 5]
         ELSE IF c = 101 /\ StrNCmpEq(cs, jn, <<110, 100>>)
         THEN [s EXCEPT !.j = jn + 2, !.state = stEnvironment,
                        !.stats[lsCharsCmdEnvir] = @ + 3]
         ELSE [s EXCEPT !.j = jn, !.state = stCommand,
                        !.stats[lsCmd] = @ + 1,
                        !.stats[lsCharsCmdEnvir] = @ + 1]
    ELSE [s EXCEPT !.j = jn, !.state = stStandard,
                   !.stats[lsCmd] = @ + 1,
                   !.stats[lsCharsCmdEnvir] = @ + 1]

\* case stCommand
LatexCommand(cs, s, c, jn) ==
    IF IsUAlphabetic(c)
    THEN [s EXCEPT !.j = jn, !.stats[lsCharsCmdEnvir] = @ + 1]
    ELSE IF c = 92
    THEN [s EXCEPT !.j = jn, !.state = stControlSequence,
                   !.stats[lsCharsCmdEnvir] = @ + 1]
    ELSE IF c = 37
    THEN [s EXCEPT !.j = jn, !.state = stComment]
    ELSE [s EXCEPT !.j = jn, !.state = stStandard,
                   !.stats[lsCharsWhite] = @ + 1]

\* case stEnvironment, were the closing brace left uncounted.
LatexEnvironment_BraceUncounted(cs, s, c, jn) ==
    IF c = 125
    THEN [s EXCEPT !.j = jn, !.state = stStandard]
    ELSE IF c = 37
    THEN [s EXCEPT !.j = jn, !.state = stComment]
    ELSE [s EXCEPT !.j = jn, !.stats[lsCharsCmdEnvir] = @ + 1]

\* case stEnvironment
LatexEnvironment(cs, s, c, jn) ==
    IF c = 125
    THEN [s EXCEPT !.j = jn, !.state = stStandard,
                   !.stats[lsCharsCmdEnvir] = @ + 1]
    ELSE IF c = 37
    THEN [s EXCEPT !.j = jn, !.state = stComment]
    ELSE [s EXCEPT !.j = jn, !.stats[lsCharsCmdEnvir] = @ + 1]

\* switch(state) on the code point r.c read, the cursor at r.j behind it
LatexSwitch(cs, s, r) ==
    CASE s.state = stStandard        -> LatexStandard(cs, s, r.c, r.j)
      [] s.state = stControlSequence -> LatexControlSequence(cs, s, r.c, r.j)
      [] s.state = stCommand         -> LatexCommand(cs, s, r.c, r.j)
      [] s.state = stEnvironment     -> LatexEnvironment(cs, s, r.c, r.j)
      [] s.state = stComment         -> [s EXCEPT !.j = r.j]
      [] OTHER                       -> [s EXCEPT !.j = r.j, !.err = MSG__DEBUG]

\* LatexChar with the test for the line feed skipped inside a comment.
LatexChar_CommentUnchecked(cs, s) ==
    LET r == U8_NEXT(cs, s.j) IN
    IF r.c = 10 /\ s.state # stComment
    THEN [s EXCEPT !.j = r.j, !.err = MSG__NEWLINE_FOUND]
    ELSE LatexSwitch(cs, s, r)

\* One iteration of the inner loop over the code points of cs, on the
\* locals s = [stats, j, state, word, err].
LatexChar(cs, s) ==
    LET r == U8_NEXT(cs, s.j) IN
    IF r.c = 10 THEN [s EXCEPT !.j = r.j, !.err = MSG__NEWLINE_FOUND]
    ELSE LatexSwitch(cs, s, r)

\* The inner loop run to its end or to the error.
RECURSIVE LatexScan(_, _)
LatexScan(cs, s) ==
    IF s.err # "" \/ s.j >= Len(cs) THEN s
    ELSE LatexScan(cs, LatexChar(cs, s))

\* The body of the outer loop for the element curs, from the accumulator st.
LatexElement(st, curs) ==
    IF curs = NA_STRING THEN [stats |-> st, err |-> ""]
    ELSE LET s == LatexScan(curs, [stats |-> st, j |-> 0, state |-> stStandard,
                                   word |-> FALSE, err |-> ""])
         IN  [stats |-> s.stats, err |-> s.err]

\* The outer loop over the elements k.. of v.
RECURSIVE LatexFrom(_, _, _)
LatexFrom(v, k, st) ==
    IF k > Len(v) THEN [stats |-> st, err |-> ""]
    ELSE LET e == LatexElement(st, v[k]) IN
         IF e.err # "" THEN e ELSE LatexFrom(v, k + 1, e.stats)

\* The call as a function of its argument: the record returned, or the error.
stri_stats_latex(v) == LatexFrom(v, 1, ZeroStats(lsAll))


---------------------------------------------------------------------------
(* The statistics calls as state machines: one step per iteration of the   *)
(* outer loop head, of the inner loop, and of the code behind them.        *)

\* A pointer that refers to nothing.
NULL == [id |-> 0, kind |-> -1, text |-> <<>>]

\* The variables of the location calls while a statistics call runs.
LocateIdle ==
    /\ boundary = <<>>
    /\ briter = NULL
    /\ str_text = NULL
    /\ last_boundary = -1
    /\ ret = <<>>
    /\ nset = <<>>
    /\ heap = [engines |-> 0, texts |-> 0, live |-> {}, released |-> <<>>]

InitStats ==
    /\ call \in {"general", "latex"}
    /\ str \in Vectors(IF call = "general" THEN GeneralAtoms ELSE LatexAtoms,
                       MaxSize)
    /\ i = 0
    /\ pc = "loop"
    /\ err = ""
    /\ stats = ZeroStats(IF call = "general" THEN gsAll ELSE lsAll)
    /\ j = 0
    /\ state = stStandard
    /\ word = FALSE
    /\ AnyNonWhite = FALSE
    /\ LocateIdle

\* GeneralNextElement with the line counted ahead of the test for NA.
GeneralNextElement_CountsNA ==
    /\ call = "general" /\ pc = "loop" /\ i < Len(str)
    /\ stats' = [stats EXCEPT ![gsNumLines] = @ + 1]
    /\ IF str[i + 1] = NA_STRING
       THEN /\ i' = i + 1
            /\ UNCHANGED <<pc, j, AnyNonWhite>>
       ELSE /\ j' = 0
            /\ AnyNonWhite' = FALSE
            /\ pc' = "chars"
            /\ i' = i
    /\ UNCHANGED <<call, str, err, state, word>>
    /\ UNCHANGED locateVars

\* GeneralNextElement with the record started anew at each element.
GeneralNextElement_ResetsStats ==
    /\ call = "general" /\ pc = "loop" /\ i < Len(str)
    /\ IF str[i + 1] = NA_STRING
       THEN /\ i' = i + 1
            /\ UNCHANGED <<pc, stats, j, AnyNonWhite>>
       ELSE /\ stats' = [ZeroStats(gsAll) EXCEPT ![gsNumLines] = 1]
            /\ j' = 0
            /\ AnyNonWhite' = FALSE
            /\ pc' = "chars"
            /\ i' = i
    /\ UNCHANGED <<call, str, err, state, word>>
    /\ UNCHANGED locateVars

\* stri_stats_general, the head of the outer loop: the NA element is
\* skipped, another element counts as a line and its scan starts.
GeneralNextElement ==
    /\ call = "general" /\ pc = "loop" /\ i < Len(str)
    /\ IF str[i + 1] = NA_STRING
       THEN /\ i' = i + 1
            /\ UNCHANGED <<pc, stats, j, AnyNonWhite>>
       ELSE /\ stats' = [stats EXCEPT ![gsNumLines] = @ + 1]
            /\ j' = 0
            /\ AnyNonWhite' = FALSE
            /\ pc' = "chars"
            /\ i' = i
    /\ UNCHANGED <<call, str, err, state, word>>
    /\ UNCHANGED locateVars

\* stri_stats_general, one iteration of the inner loop.
GeneralNextChar ==
    /\ call = "general" /\ pc = "chars" /\ j < Len(str[i + 1])
    /\ LET s == GeneralChar(str[i + 1],
                    [stats |-> stats, j |-> j, AnyNonWhite |-> AnyNonWhite,
                     err |-> ""])
       IN  /\ stats' = s.stats
           /\ j' = s.j
           /\ AnyNonWhite' = s.AnyNonWhite
           /\ err' = s.err
           /\ pc' = IF s.err # "" THEN "error" ELSE "chars"
    /\ UNCHANGED <<call, str, i, state, word>>
    /\ UNCHANGED locateVars

\* stri_stats_general, behind the inner loop.
GeneralEndElement ==
    /\ call = "general" /\ pc = "chars" /\ j >= Len(str[i + 1])
    /\ stats' = IF AnyNonWhite
                THEN [stats EXCEPT ![gsNumLinesNonEmpty] = @ + 1]
                ELSE stats
    /\ i' = i + 1
    /\ pc' = "loop"
    /\ UNCHANGED <<call, str, err, j, state, word, AnyNonWhite>>
    /\ UNCHANGED locateVars

\* stri_stats_general, behind the outer loop: the record is returned.
GeneralReturn ==
    /\ call = "general" /\ pc = "loop" /\ i >= Len(str)
    /\ pc' = "done"
    /\ UNCHANGED <<call, str, i, err>>
    /\ UNCHANGED statsVars
    /\ UNCHANGED locateVars

\* LatexNextElement with state and word kept from the element before.
LatexNextElement_KeepsState ==
    /\ call = "latex" /\ pc = "loop" /\ i < Len(str)
    /\ IF str[i + 1] = NA_STRING
       THEN /\ i' = i + 1
            /\ UNCHANGED <<pc, j, state, word>>
       ELSE /\ j' = 0
            /\ UNCHANGED <<state, word>>
            /\ pc' = "chars"
            /\ i' = i
    /\ UNCHANGED <<call, str, err, stats, AnyNonWhite>>
    /\ UNCHANGED locateVars

\* stri_stats_latex, the head of the outer loop: the NA element is skipped,
\* another element starts in stStandard outside a word.
LatexNextElement ==
    /\ call = "latex" /\ pc = "loop" /\ i < Len(str)
    /\ IF str[i + 1] = NA_STRING
       THEN /\ i' = i + 1
            /\ UNCHANGED <<pc, j, state, word>>
       ELSE /\ j' = 0
            /\ state' = stStandard
            /\ word' = FALSE
            /\ pc' = "chars"
            /\ i' = i
    /\ UNCHANGED <<call, str, err, stats, AnyNonWhite>>
    /\ UNCHANGED locateVars

\* stri_stats_latex, one iteration of the inner loop.
LatexNextChar ==
    /\ call = "latex" /\ pc = "chars" /\ j < Len(str[i + 1])
    /\ LET s == LatexChar(str[i + 1],
                    [stats |-> stats, j |-> j, state |-> state, word |-> word,
                     err |-> ""])
       IN  /\ stats' = s.stats
           /\ j' = s.j
           /\ state' = s.state
           /\ word' = s.word
           /\ err' = s.err
           /\ pc' = IF s.err # "" THEN "error" ELSE "chars"
    /\ UNCHANGED <<call, str, i, AnyNonWhite>>
    /\ UNCHANGED locateVars

\* stri_stats_latex, behind the inner loop.
LatexEndElement ==
    /\ call = "latex" /\ pc = "chars" /\ j >= Len(str[i + 1])
    /\ i' = i + 1
    /\ pc' = "loop"
    /\ UNCHANGED <<call, str, err>>
    /\ UNCHANGED statsVars
    /\ UNCHANGED locateVars

\* stri_stats_latex, behind the outer loop: the record is returned.
LatexReturn ==
    /\ call = "latex" /\ pc = "loop" /\ i >= Len(str)
    /\ pc' = "done"
    /\ UNCHANGED <<call, str, i, err>>
    /\ UNCHANGED statsVars
    /\ UNCHANGED locateVars

NextStats ==
    \/ GeneralNextElement
    \/ GeneralNextChar
    \/ GeneralEndElement
    \/ GeneralReturn
    \/ LatexNextElement
    \/ LatexNextChar
    \/ LatexEndElement
    \/ LatexReturn

SpecStats == InitStats /\ [][NextStats]_vars


---------------------------------------------------------------------------
(* The break iterators of ICU, on the code points of the inputs.           *)

\* R's NA_integer_
NA_INTEGER == -2147483647 - 1

\* stri__matrix_NA_INTEGER(1, 2): one row of NAs
stri__matrix_NA_INTEGER == << <<NA_INTEGER, NA_INTEGER>> >>

\* The label an NA element of boundary is told by.
NA_LABEL == "NA_STRING"

boundary_opts == <<"character", "line-break", "sentence", "word">>

\* stri__match_arg(option, set): the 0-based index of option in set, or -1.
stri__match_arg(option, set) ==
    IF \E k \in 1..Len(set) : set[k] = option
    THEN (CHOOSE k \in 1..Len(set) : set[k] = option) - 1
    ELSE -1

\* stri__recycling_rule(true, 2, ns, nb)
stri__recycling_rule(ns, nb) ==
    IF ns = 0 \/ nb = 0 THEN 0 ELSE IF ns >= nb THEN ns ELSE nb

\* StriContainer*::get(i), isNA(i): element i of a vector recycled to the
\* length of the result.
ContainerGet(v, k) == v[(k % Len(v)) + 1]

\* StriContainerBase::vectorize_init(), vectorize_next(i), vectorize_end()
vectorize_init == 0
vectorize_next(k) == k + 1
vectorize_end(n) == n

UBRK_WORD_NONE   == 0
UBRK_WORD_NUMBER == 100
UBRK_WORD_LETTER == 200

\* Whether an iterator of the kind (0 character, 1 line-break, 2 sentence,
\* 3 word) breaks between the adjacent code points c and d.  The inputs
\* hold letters, digits, the space and the line feed only.
BreakBetween(kind, c, d) ==
    CASE kind = 0 -> TRUE
      [] kind = 1 -> c = 10 \/ (c = 32 /\ d \notin {32, 10})
      [] kind = 2 -> c = 10
      [] kind = 3 -> ~((IsUAlphabetic(c) \/ IsDigit(c))
                       /\ (IsUAlphabetic(d) \/ IsDigit(d)))

\* getRuleStatus() at a boundary behind the code point c
RuleStatus(c) ==
    IF IsUAlphabetic(c) THEN UBRK_WORD_LETTER
    ELSE IF IsDigit(c) THEN UBRK_WORD_NUMBER
    ELSE UBRK_WORD_NONE

\* What briter->next() returns, call after call, from the byte offset j0 of
\* the text cs the iterator of the kind is bound to: each boundary (a byte
\* offset) with its rule status, until BreakIterator::DONE.
RECURSIVE BriterNext(_, _, _)
BriterNext(kind, cs, j0) ==
    IF j0 >= Len(cs) THEN <<>>
    ELSE LET r == U8_NEXT(cs, j0) IN
         IF r.j >= Len(cs) \/ BreakBetween(kind, r.c, U8_NEXT(cs, r.j).c)
         THEN <<[match |-> r.j, status |-> RuleStatus(r.c)]>>
              \o BriterNext(kind, cs, r.j)
         ELSE BriterNext(kind, cs, r.j)

\* The number of code points of cs that start before the byte offset off.
RECURSIVE CodePointsBefore(_, _, _)
CodePointsBefore(cs, off, j0) ==
    IF j0 >= Len(cs) \/ j0 >= off THEN 0
    ELSE 1 + CodePointsBefore(cs, off, U8_NEXT(cs, j0).j)

\* StriContainerUTF8_indexable::UTF8_to_UChar32_index(i, i1, i2, ni, adj1,
\* adj2) on the text cs: the byte offsets of the starts i1 and of the ends i2
\* are rewritten in place to code point positions.  A start becomes the
\* 0-based index of its code point plus adj1; an end becomes the 1-based
\* position of the code point that follows the match plus adj2.
UTF8_to_UChar32_index(cs, i1, i2, adj1, adj2) ==
    [i1 |-> [k \in 1..Len(i1) |-> CodePointsBefore(cs, i1[k], 0) + adj1],
     i2 |-> [k \in 1..Len(i2) |-> CodePointsBefore(cs, i2[k], 0) + 1 + adj2]]

---------------------------------------------------------------------------
(* The handles of the external resources.                                  *)

\* A new handle is live.
HeapCreate(h, tag, id) == [h EXCEPT !.live = @ \cup {<<tag, id>>}]

\* delete briter / utext_close(str_text)
HeapRelease(h, tag, id) ==
    [h EXCEPT !.live = @ \ {<<tag, id>>}, !.released = Append(@, <<tag, id>>)]

\* if (briter) { delete briter; briter = NULL; }
\* if (str_text) { utext_close(str_text); str_text = NULL; }
Cleanup(h, b, t) ==
    LET h1 == IF b # NULL THEN HeapRelease(h, "briter", b.id) ELSE h
    IN  IF t # NULL THEN HeapRelease(h1, "utext", t.id) ELSE h1

\* utext_openUTF8(ut, s, length, &status), succeeding: ut is set up anew
\* when NULL and reused otherwise; the view is on cs.
utext_openUTF8(ut, cs, h) ==
    IF ut = NULL
    THEN [ut |-> [id |-> h.texts + 1, kind |-> -1, text |-> cs],
          heap |-> HeapCreate([h EXCEPT !.texts = @ + 1], "utext", h.texts + 1)]
    ELSE [ut |-> [ut EXCEPT !.text = cs], heap |-> h]


---------------------------------------------------------------------------
(* stri_locate_boundaries and stri_locate_words                            *)

MSG__INCORRECT_MATCH_OPTION == "MSG__INCORRECT_MATCH_OPTION"

\* StriException(status) of a failed ICU call
EngineFailure(what) == "StriException(status): " \o what

\* Fragments of the texts given to the location calls.
LocateAtoms ==
    { <<195, 169>>,    \* U+00E9 in two bytes: a letter
      <<32>>,          \* space
      <<10>> }         \* line feed

Labels == {"character", "line-break", "sentence", "word", "bogus", NA_LABEL}

\* The character vectors str of a location call of the size at most size.
LocateVectors(size) ==
    UNION { VectorsOf(LocateAtoms, k, size - 2 * k) : k \in 0..(size \div 2) }

\* The points at which ICU may report a failure in one iteration.
FailPoints == {"none", "create", "utext_openUTF8", "setText"}

\* The variables of the statistics calls while a location call runs.
StatsIdle ==
    /\ stats = <<>>
    /\ j = 0
    /\ state = stStandard
    /\ word = FALSE
    /\ AnyNonWhite = FALSE

vectorize_length ==
    IF call = "boundaries" THEN stri__recycling_rule(Len(str), Len(boundary))
    ELSE Len(str)

InitLocate ==
    /\ call \in {"boundaries", "words"}
    /\ str \in LocateVectors(MaxLocateSize)
    /\ IF call = "boundaries"
       THEN boundary \in [1..Len(str) -> Labels] \cup [1..1 -> Labels]
       ELSE boundary = <<>>
    /\ i = vectorize_init
    /\ pc = IF call = "boundaries" THEN "loop" ELSE "open"
    /\ err = ""
    /\ briter = NULL
    /\ str_text = NULL
    /\ last_boundary = -1
    /\ ret = [k \in 1..vectorize_length |-> <<>>]
    /\ nset = [k \in 1..vectorize_length |-> 0]
    /\ heap = [engines |-> 0, texts |-> 0, live |-> {}, released |-> <<>>]
    /\ StatsIdle

\* SET_VECTOR_ELT(ret, i, value) and the step to the next index
StoreAndAdvance(value) ==
    /\ ret' = [ret EXCEPT ![i + 1] = value]
    /\ nset' = [nset EXCEPT ![i + 1] = @ + 1]
    /\ i' = vectorize_next(i)

\* The handler of stri_locate_boundaries, were it to delete the iterator and
\* leave the text open.
BoundariesHandler_LeaksText(h, b, t) == Cleanup(h, b, NULL)

\* STRI__ERROR_HANDLER_END of stri_locate_boundaries, entered with the
\* pointers b and t: the handles are released.
BoundariesHandler(h, b, t) == Cleanup(h, b, t)

\* STRI__ERROR_HANDLER_END of stri_locate_words, entered with the pointers
\* b and t: the handles are released.
WordsHandler(h, b, t) == Cleanup(h, b, t)

\* throw StriException(...) with the pointers b and t and the resources h:
\* the handler of the call runs and raises the error; no list is returned.
Throw(e, h, b, t) ==
    /\ pc' = "error"
    /\ err' = e
    /\ heap' = IF call = "boundaries" THEN BoundariesHandler(h, b, t)
               ELSE WordsHandler(h, b, t)
    /\ briter' = NULL
    /\ str_text' = NULL
    /\ UNCHANGED <<i, ret, nset>>

\* The occurrences stri_locate_boundaries collects from the boundaries brk
\* that next() returned, the first of them starting at last_match.
RECURSIVE BoundariesOccurences(_, _)
BoundariesOccurences(brk, last_match) ==
    IF brk = <<>> THEN <<>>
    ELSE << <<last_match, Head(brk).match>> >>
         \o BoundariesOccurences(Tail(brk), Head(brk).match)

\* The matrix of stri_locate_boundaries, were both columns converted with
\* the adjustment 1.
BoundariesAns_BothAdjusted(cs, occurences) ==
    LET first  == [k \in 1..Len(occurences) |-> occurences[k][1]]
        second == [k \in 1..Len(occurences) |-> occurences[k][2]]
        tab    == UTF8_to_UChar32_index(cs, first, second, 1, 1)
    IN  [k \in 1..Len(occurences) |-> <<tab.i1[k], tab.i2[k]>>]

\* The matrix stri_locate_boundaries makes of the occurrences in the text
\* cs: the column of the starts and the column of the ends are filled, then
\* converted with the adjustments 1 and 0.
BoundariesAns(cs, occurences) ==
    LET first  == [k \in 1..Len(occurences) |-> occurences[k][1]]
        second == [k \in 1..Len(occurences) |-> occurences[k][2]]
        tab    == UTF8_to_UChar32_index(cs, first, second, 1, 0)
    IN  [k \in 1..Len(occurences) |-> <<tab.i1[k], tab.i2[k]>>]

\* The opening of the iterator, were the iterator held to be kept whenever
\* there is one, whatever its kind.
BoundariesOpen_ReusesAlways(b, last, boundary_cur, h) ==
    IF b = NULL
    THEN LET id == h.engines + 1
         IN  [briter |-> [id |-> id, kind |-> boundary_cur, text |-> <<>>],
              heap |-> HeapCreate([h EXCEPT !.engines = id], "briter", id)]
    ELSE [briter |-> b, heap |-> h]

\* The opening of the iterator, were an iterator to be created for every
\* element, the kind having changed or not.
BoundariesOpen_AlwaysCreates(b, last, boundary_cur, h) ==
    LET h1 == IF b # NULL THEN HeapRelease(h, "briter", b.id) ELSE h
        id == h1.engines + 1
    IN  [briter |-> [id |-> id, kind |-> boundary_cur, text |-> <<>>],
         heap |-> HeapCreate([h1 EXCEPT !.engines = id], "briter", id)]

\* if (last_boundary != boundary_cur) ..., the iterator being created:
\* the iterator held is deleted and one of the kind boundary_cur created.
\* Otherwise the iterator held is reused.
BoundariesOpen(b, last, boundary_cur, h) ==
    IF last # boundary_cur
    THEN LET h1 == IF b # NULL THEN HeapRelease(h, "briter", b.id) ELSE h
             id == h1.engines + 1
         IN  [briter |-> [id |-> id, kind |-> boundary_cur, text |-> <<>>],
              heap |-> HeapCreate([h1 EXCEPT !.engines = id], "briter", id)]
    ELSE [briter |-> b, heap |-> h]

\* if (last_boundary != boundary_cur) ..., the creation failing: the
\* iterator held is deleted and briter is NULL.
BoundariesOpenFailed(b, h) ==
    [briter |-> NULL,
     heap |-> IF b # NULL THEN HeapRelease(h, "briter", b.id) ELSE h]

\* The iteration on an NA or empty element, were it to delete the iterator
\* held ahead of storing the row of NAs.
BoundariesSkip_DeletesIterator ==
    /\ call = "boundaries" /\ pc = "loop" /\ i # vectorize_end(vectorize_length)
    /\ \/ ContainerGet(str, i) = NA_STRING
       \/ ContainerGet(boundary, i) = NA_LABEL
       \/ Len(ContainerGet(str, i)) = 0
    /\ heap' = IF briter # NULL THEN HeapRelease(heap, "briter", briter.id) ELSE heap
    /\ briter' = NULL
    /\ last_boundary' = -1
    /\ StoreAndAdvance(stri__matrix_NA_INTEGER)
    /\ UNCHANGED <<call, str, boundary, pc, err, str_text>>
    /\ UNCHANGED statsVars

\* The iteration on an NA or empty element, were it to go on to the next
\* index with nothing stored.
BoundariesSkip_NoStore ==
    /\ call = "boundaries" /\ pc = "loop" /\ i # vectorize_end(vectorize_length)
    /\ \/ ContainerGet(str, i) = NA_STRING
       \/ ContainerGet(boundary, i) = NA_LABEL
       \/ Len(ContainerGet(str, i)) = 0
    /\ i' = vectorize_next(i)
    /\ UNCHANGED <<call, str, boundary, pc, err, briter, str_text,
                   last_boundary, heap, ret, nset>>
    /\ UNCHANGED statsVars

\* stri_locate_boundaries, an iteration on an element that is NA, has an NA
\* boundary or is empty.
BoundariesSkip ==
    /\ call = "boundaries" /\ pc = "loop" /\ i # vectorize_end(vectorize_length)
    /\ \/ ContainerGet(str, i) = NA_STRING
       \/ ContainerGet(boundary, i) = NA_LABEL
       \/ Len(ContainerGet(str, i)) = 0
    /\ StoreAndAdvance(stri__matrix_NA_INTEGER)
    /\ UNCHANGED <<call, str, boundary, pc, err, briter, str_text,
                   last_boundary, heap>>
    /\ UNCHANGED statsVars

\* The iteration on an element whose boundary is not one of boundary_opts,
\* were it to store the row of NAs and go on.
BoundariesBadOption_Skips ==
    /\ call = "boundaries" /\ pc = "loop" /\ i # vectorize_end(vectorize_length)
    /\ ContainerGet(str, i) # NA_STRING
    /\ ContainerGet(boundary, i) # NA_LABEL
    /\ Len(ContainerGet(str, i)) # 0
    /\ stri__match_arg(ContainerGet(boundary, i), boundary_opts) < 0
    /\ StoreAndAdvance(stri__matrix_NA_INTEGER)
    /\ UNCHANGED <<call, str, boundary, pc, err, briter, str_text,
                   last_boundary, heap>>
    /\ UNCHANGED statsVars

\* stri_locate_boundaries, an iteration on an element whose boundary is not
\* one of boundary_opts: the call is aborted.
BoundariesBadOption ==
    /\ call = "boundaries" /\ pc = "loop" /\ i # vectorize_end(vectorize_length)
    /\ ContainerGet(str, i) # NA_STRING
    /\ ContainerGet(boundary, i) # NA_LABEL
    /\ Len(ContainerGet(str, i)) # 0
    /\ stri__match_arg(ContainerGet(boundary, i), boundary_opts) < 0
    /\ Throw(MSG__INCORRECT_MATCH_OPTION, heap, briter, str_text)
    /\ UNCHANGED <<call, str, boundary, last_boundary>>
    /\ UNCHANGED statsVars

\* stri_locate_boundaries, an iteration that reaches the iterator; ICU may
\* fail at one of FailPoints, and the call is aborted then.
BoundariesLocate ==
    /\ call = "boundaries" /\ pc = "loop" /\ i # vectorize_end(vectorize_length)
    /\ ContainerGet(str, i) # NA_STRING
    /\ ContainerGet(boundary, i) # NA_LABEL
    /\ Len(ContainerGet(str, i)) # 0
    /\ LET cs == ContainerGet(str, i)
           boundary_cur == stri__match_arg(ContainerGet(boundary, i), boundary_opts)
       IN
       /\ boundary_cur >= 0
       /\ last_boundary' = boundary_cur
       /\ \E fail \in FailPoints :
          IF fail = "create"
          THEN /\ last_boundary # boundary_cur
               /\ LET o == BoundariesOpenFailed(briter, heap) IN
                  Throw(EngineFailure(fail), o.heap, o.briter, str_text)
          ELSE LET o == BoundariesOpen(briter, last_boundary, boundary_cur, heap) IN
               IF fail = "utext_openUTF8"
               THEN Throw(EngineFailure(fail), o.heap, o.briter, str_text)
               ELSE LET u == utext_openUTF8(str_text, cs, o.heap) IN
                    IF fail = "setText"
                    THEN Throw(EngineFailure(fail), u.heap, o.briter, u.ut)
                    ELSE LET b == [o.briter EXCEPT !.text = u.ut.text] IN
                         /\ briter' = b
                         /\ str_text' = u.ut
                         /\ heap' = u.heap
                         /\ StoreAndAdvance(
                              BoundariesAns(cs,
                                BoundariesOccurences(
                                  BriterNext(b.kind, b.text, 0), 0)))
                         /\ UNCHANGED <<pc, err>>
    /\ UNCHANGED <<call, str, boundary>>
    /\ UNCHANGED statsVars

\* stri_locate_boundaries, behind the loop: the handles are released and
\* the list is returned.
BoundariesReturn ==
    /\ call = "boundaries" /\ pc = "loop" /\ i = vectorize_end(vectorize_length)
    /\ heap' = Cleanup(heap, briter, str_text)
    /\ briter' = NULL
    /\ str_text' = NULL
    /\ pc' = "done"
    /\ UNCHANGED <<call, str, boundary, i, err, last_boundary, ret, nset>>
    /\ UNCHANGED statsVars

\* The occurrences of stri_locate_words, were the rule status not looked at.
RECURSIVE WordsOccurences_NoFilter(_, _)
WordsOccurences_NoFilter(brk, last_match) ==
    IF brk = <<>> THEN <<>>
    ELSE << <<last_match, Head(brk).match>> >>
         \o WordsOccurences_NoFilter(Tail(brk), Head(brk).match)

\* The occurrences stri_locate_words collects from the boundaries brk that
\* next() returned: those whose rule status is not UBRK_WORD_NONE.
RECURSIVE WordsOccurences(_, _)
WordsOccurences(brk, last_match) ==
    IF brk = <<>> THEN <<>>
    ELSE (IF Head(brk).status # UBRK_WORD_NONE
          THEN << <<last_match, Head(brk).match>> >>
          ELSE <<>>)
         \o WordsOccurences(Tail(brk), Head(brk).match)

\* The matrix stri_locate_words makes of the occurrences in the text cs,
\* converted with the adjustments 1 and 0.
WordsAns(cs, occurences) ==
    LET first  == [k \in 1..Len(occurences) |-> occurences[k][1]]
        second == [k \in 1..Len(occurences) |-> occurences[k][2]]
        tab    == UTF8_to_UChar32_index(cs, first, second, 1, 0)
    IN  [k \in 1..Len(occurences) |-> <<tab.i1[k], tab.i2[k]>>]

\* What stri_locate_words stores for the occurrences of the text cs: the
\* row of NAs if there is none.
WordsResult(cs, occurences) ==
    IF Len(occurences) <= 0 THEN stri__matrix_NA_INTEGER
    ELSE WordsAns(cs, occurences)

\* stri_locate_words, ahead of the loop: the word iterator is created; ICU
\* may fail, and the call is aborted then.
WordsOpen ==
    /\ call = "words" /\ pc = "open"
    /\ \E fail \in {"none", "create"} :
          IF fail = "create"
          THEN Throw(EngineFailure(fail), heap, NULL, str_text)
          ELSE LET id == heap.engines + 1 IN
               /\ briter' = [id |-> id, kind |-> 3, text |-> <<>>]
               /\ heap' = HeapCreate([heap EXCEPT !.engines = id], "briter", id)
               /\ pc' = "loop"
               /\ UNCHANGED <<i, err, ret, nset, str_text>>
    /\ UNCHANGED <<call, str, boundary, last_boundary>>
    /\ UNCHANGED statsVars

\* stri_locate_words, an iteration on an NA element.
WordsSkip ==
    /\ call = "words" /\ pc = "loop" /\ i < vectorize_length
    /\ str[i + 1] = NA_STRING
    /\ StoreAndAdvance(stri__matrix_NA_INTEGER)
    /\ UNCHANGED <<call, str, boundary, pc, err, briter, str_text,
                   last_boundary, heap>>
    /\ UNCHANGED statsVars

\* The iteration of stri_locate_words, were it to refuse a line feed the way
\* the statistics calls do.
WordsLocate_RejectsNewline ==
    /\ call = "words" /\ pc = "loop" /\ i < vectorize_length
    /\ str[i + 1] # NA_STRING
    /\ LET cs == str[i + 1] IN
       IF \E k \in 1..Len(cs) : cs[k] = 10
       THEN Throw(MSG__NEWLINE_FOUND, heap, briter, str_text)
       ELSE LET u == utext_openUTF8(str_text, cs, heap)
                b == [briter EXCEPT !.text = u.ut.text]
            IN  /\ briter' = b
                /\ str_text' = u.ut
                /\ heap' = u.heap
                /\ StoreAndAdvance(
                     WordsResult(cs,
                       WordsOccurences(BriterNext(b.kind, b.text, 0), 0)))
                /\ UNCHANGED <<pc, err>>
    /\ UNCHANGED <<call, str, boundary, last_boundary>>
    /\ UNCHANGED statsVars

\* stri_locate_words, an iteration that reaches the iterator; ICU may fail
\* when the text is opened or bound, and the call is aborted then.
WordsLocate ==
    /\ call = "words" /\ pc = "loop" /\ i < vectorize_length
    /\ str[i + 1] # NA_STRING
    /\ LET cs == str[i + 1] IN
       \E fail \in {"none", "utext_openUTF8", "setText"} :
          IF fail = "utext_openUTF8"
          THEN Throw(EngineFailure(fail), heap, briter, str_text)
          ELSE LET u == utext_openUTF8(str_text, cs, heap) IN
               IF fail = "setText"
               THEN Throw(EngineFailure(fail), u.heap, briter, u.ut)
               ELSE LET b == [briter EXCEPT !.text = u.ut.text] IN
                    /\ briter' = b
                    /\ str_text' = u.ut
                    /\ heap' = u.heap
                    /\ StoreAndAdvance(
                         WordsResult(cs,
                           WordsOccurences(BriterNext(b.kind, b.text, 0), 0)))
                    /\ UNCHANGED <<pc, err>>
    /\ UNCHANGED <<call, str, boundary, last_boundary>>
    /\ UNCHANGED statsVars

\* stri_locate_words, behind the loop: the handles are released and the
\* list is returned.
WordsReturn ==
    /\ call = "words" /\ pc = "loop" /\ i >= vectorize_length
    /\ heap' = Cleanup(heap, briter, str_text)
    /\ briter' = NULL
    /\ str_text' = NULL
    /\ pc' = "done"
    /\ UNCHANGED <<call, str, boundary, i, err, last_boundary, ret, nset>>
    /\ UNCHANGED statsVars

NextLocate ==
    \/ BoundariesSkip
    \/ BoundariesBadOption
    \/ BoundariesLocate
    \/ BoundariesReturn
    \/ WordsOpen
    \/ WordsSkip
    \/ WordsLocate
    \/ WordsReturn

SpecLocate == InitLocate /\ [][NextLocate]_vars

---------------------------------------------------------------------------
Init == InitStats \/ InitLocate

Next == NextStats \/ NextLocate

Spec == Init /\ [][Next]_vars


---------------------------------------------------------------------------
(* Properties of the statistics calls, under SpecStats.                    *)

\* The first n bytes of cs hold no line feed.
NoLineFeed(cs, n) == \A k \in 1..n : cs[k] # 10

\* The elements of v that are not NA, in their order.
WithoutNA(v) == SelectSeq(v, LAMBDA e : e # NA_STRING)

\* C1: stri_stats_general and stri_stats_latex abort with the line-feed
\* error as soon as the scan of a non-NA element reads U+000A, in every
\* element and in every tokenizer state: the scan never gets behind a line
\* feed, the elements behind the outer loop hold none, a record is returned
\* only when all elements have been scanned, the abort happens at the line
\* feed just read, and the call always goes on until it returns or aborts.
C1_LineFeedAborts ==
    /\ \A k \in 1..i : str[k] = NA_STRING \/ NoLineFeed(str[k], Len(str[k]))
    /\ pc = "chars" => NoLineFeed(str[i + 1], j)
    /\ pc = "done" => i = Len(str) /\ err = ""
    /\ pc = "error" => /\ err = MSG__NEWLINE_FOUND
                       /\ j >= 1
                       /\ str[i + 1][j] = 10
                       /\ NoLineFeed(str[i + 1], j - 1)
    /\ pc \in {"done", "error"} \/ ENABLED NextStats

\* C1, witness: stri_stats_latex aborted on a line feed read in the state
\* stEnvironment.
C1_Witness ==
    /\ call = "latex" /\ pc = "error" /\ err = MSG__NEWLINE_FOUND
    /\ state = stEnvironment

\* C3: NA elements change no counter: whenever the outer loop is between
\* two elements, and when the record is returned, the accumulator is the
\* record of the call on the elements passed with the NA elements removed;
\* it is all zero when all elements passed are NA.
C3_NAIgnored ==
    pc \in {"loop", "done"} =>
        LET passed == WithoutNA(SubSeq(str, 1, i))
            rec == IF call = "general" THEN stri_stats_general(passed)
                   ELSE stri_stats_latex(passed)
        IN  /\ rec.err = ""
            /\ stats = rec.stats
            /\ passed = <<>> => \A k \in DOMAIN stats : stats[k] = 0

\* C3, witness: a record was returned for a vector with an NA element ahead
\* of a text that raised a counter.
C3_Witness ==
    /\ pc = "done" /\ Len(str) >= 2
    /\ str[1] = NA_STRING /\ str[2] # NA_STRING
    /\ \E k \in DOMAIN stats : stats[k] > 0



\* The code points of the text cs from the byte offset j0 on.
RECURSIVE CodePoints(_, _)
CodePoints(cs, j0) ==
    IF j0 >= Len(cs) THEN <<>>
    ELSE <<U8_NEXT(cs, j0).c>> \o CodePoints(cs, U8_NEXT(cs, j0).j)

\* Whether the bytes of cs below the offset n, read from the offset j0 on,
\* are well-formed UTF-8.
RECURSIVE WellFormed(_, _, _)
WellFormed(cs, j0, n) ==
    IF j0 >= n THEN TRUE
    ELSE /\ U8_NEXT(cs, j0).c # U_SENTINEL
         /\ WellFormed(cs, U8_NEXT(cs, j0).j, n)

\* C12: a statistics call does not read past a sequence of bytes that is
\* not well-formed UTF-8: the bytes the inner loop has passed, and the
\* texts the outer loop has passed, are well-formed, so that nothing
\* ill-formed is counted or skipped and no record is returned for it.
C12_MalformedAborts ==
    /\ \A k \in 1..i :
          str[k] = NA_STRING \/ WellFormed(str[k], 0, Len(str[k]))
    /\ pc = "chars" => WellFormed(str[i + 1], 0, j)
    /\ pc = "done" =>
          \A k \in 1..Len(str) :
              str[k] = NA_STRING \/ WellFormed(str[k], 0, Len(str[k]))

\* Whether every text of v is made of ASCII bytes.
AllAscii(v) ==
    \A k \in 1..Len(v) :
        v[k] = NA_STRING \/ \A m \in 1..Len(v[k]) : v[k][m] < 128

\* The number of bytes of the text cs that are not in the set white.
BytesNotIn(cs, white) == Cardinality({m \in 1..Len(cs) : cs[m] \notin white})

\* The same, summed over the texts of v.
RECURSIVE TotalNotIn(_, _)
TotalNotIn(v, white) ==
    IF v = <<>> THEN 0
    ELSE (IF Head(v) = NA_STRING THEN 0 ELSE BytesNotIn(Head(v), white))
         + TotalNotIn(Tail(v), white)

\* What the record of stri_stats_general on ASCII texts is, were white the
\* white space.
AsciiRecord(white) ==
    /\ stats[gsNumLines] = Cardinality({k \in 1..Len(str) : str[k] # NA_STRING})
    /\ stats[gsNumLinesNonEmpty] =
          Cardinality({k \in 1..Len(str) :
                          str[k] # NA_STRING /\ BytesNotIn(str[k], white) > 0})
    /\ stats[gsNumChars] = TotalNotIn(str, {})
    /\ stats[gsNumCharsNonWhite] = TotalNotIn(str, white)

\* C13 as stated: on ASCII texts the record of stri_stats_general counts as
\* non-white the characters that are neither the space nor the tab.
C13_AsciiSpaceTab ==
    call = "general" /\ pc = "done" /\ AllAscii(str) => AsciiRecord({32, 9})

\* C13, amended: on ASCII texts without a line feed Chars is the number of
\* bytes of the texts, Lines the number of texts, CharsNonWhite the number
\* of characters without the property White_Space, which are those other
\* than the tab, the vertical tab, the form feed, the carriage return and
\* the space, and LinesNonEmpty the number of texts with such a character.
C13_AsciiWhiteSpace ==
    call = "general" /\ pc = "done" /\ AllAscii(str) =>
        AsciiRecord({9, 11, 12, 13, 32})

\* A record for a text with a letter, a tab and a carriage return.
C13_Witness ==
    /\ call = "general" /\ pc = "done" /\ AllAscii(str)
    /\ \E k \in 1..Len(str) :
          /\ str[k] # NA_STRING
          /\ \E m \in 1..Len(str[k]) : str[k][m] = 13
          /\ \E m \in 1..Len(str[k]) : str[k][m] = 9
          /\ \E m \in 1..Len(str[k]) : str[k][m] = 97
    /\ stats[gsNumChars] = 3 /\ stats[gsNumCharsNonWhite] = 1

\* Whether the bytes of cs from the 0-based offset j0 on spell lit.
Spells(cs, j0, lit) ==
    j0 + Len(lit) <= Len(cs) /\ SubSeq(cs, j0 + 1, j0 + Len(lit)) = lit

\* Whether stri_stats_latex is about to read, in the state st, the bytes
\* lit of the current element.
AboutToRead(st, lit) ==
    /\ call = "latex" /\ pc = "chars" /\ state = st
    /\ Spells(str[i + 1], j, lit)

\* C14: the step of stri_stats_latex that reads "end" behind a backslash
\* adds 3 to CharsCmdEnvir, changes no other counter, moves the cursor
\* behind the three bytes and enters stEnvironment; and a step changes
\* Envirs only by adding 1 when it reads "begin" behind a backslash.
C14_EndKeepsCounts ==
    [][/\ AboutToRead(stControlSequence, <<101, 110, 100>>) =>
             /\ stats' = [stats EXCEPT ![lsCharsCmdEnvir] = @ + 3]
             /\ j' = j + 3
             /\ state' = stEnvironment
             /\ pc' = "chars"
       /\ (call = "latex" /\ stats'[lsEnvir] # stats[lsEnvir]) =>
             /\ stats'[lsEnvir] = stats[lsEnvir] + 1
             /\ AboutToRead(stControlSequence, <<98, 101, 103, 105, 110>>)]_vars

\* "\end" was read at the start of a text: four characters of a command
\* or environment, no command and no environment.
C14_Witness ==
    /\ call = "latex" /\ pc = "chars" /\ state = stEnvironment
    /\ Spells(str[i + 1], 0, <<92, 101, 110, 100>>) /\ j = 4
    /\ i = 0
    /\ stats[lsCharsCmdEnvir] = 4 /\ stats[lsEnvir] = 0 /\ stats[lsCmd] = 0

\* Whether the code points cps are letters, a backslash, a punctuation
\* character other than ~ and ^, and letters again.
WordAroundControlSymbol(cps) ==
    \E m \in 2..(Len(cps) - 2) :
        /\ cps[m] = 92
        /\ IsPunct(cps[m + 1]) /\ cps[m + 1] \notin {126, 94}
        /\ \A q \in 1..(m - 1) : IsUAlphabetic(cps[q])
        /\ \A q \in (m + 2)..Len(cps) : IsUAlphabetic(cps[q])

\* C15: the step of stri_stats_latex that reads a backslash in stStandard
\* closes the word if a code point follows that is not punctuation or is ~
\* or ^, and leaves word as it is otherwise; it starts no word.  Hence a
\* first text made of letters, a backslash with a punctuation character
\* other than ~ and ^, and letters again has counted one word at its end.
C15_BackslashLookahead ==
    /\ [][AboutToRead(stStandard, <<92>>) =>
             LET cs == str[i + 1]
                 closes == /\ j + 1 < Len(cs)
                           /\ \/ ~IsPunct(U8_NEXT(cs, j + 1).c)
                              \/ U8_NEXT(cs, j + 1).c \in {126, 94}
             IN  /\ word' = IF closes THEN FALSE ELSE word
                 /\ stats'[lsWords] = stats[lsWords]
                 /\ state' = stControlSequence]_vars
    /\ [](call = "latex" /\ pc = "chars" /\ i = 0 /\ j = Len(str[1])
            /\ WordAroundControlSymbol(CodePoints(str[1], 0))
          => stats[lsWords] = 1 /\ word)

\* The text a\"a was counted: one word.
C15_Witness ==
    /\ call = "latex" /\ pc = "done"
    /\ str = << <<97, 92, 34, 97>> >>
    /\ stats[lsWords] = 1 /\ stats[lsCmd] = 1 /\ stats[lsCharsWord] = 2

\* stri_stats_latex is about to read, in stControlSequence, a letter that
\* the bytes egin follow.
LetterBeforeEgin ==
    /\ call = "latex" /\ pc = "chars" /\ state = stControlSequence
    /\ j < Len(str[i + 1])
    /\ IsUAlphabetic(U8_NEXT(str[i + 1], j).c)
    /\ Spells(str[i + 1], U8_NEXT(str[i + 1], j).j, <<101, 103, 105, 110>>)

\* The step that counts an environment behind the code point read.
CountsBegin ==
    /\ stats' = [stats EXCEPT ![lsEnvir] = @ + 1, ![lsCharsCmdEnvir] = @ + 5]
    /\ j' = U8_NEXT(str[i + 1], j).j + 4
    /\ state' = stEnvironment

\* C16 as stated: in stControlSequence every letter that the bytes egin
\* follow counts an environment, five characters and no command, skips
\* the four bytes and enters stEnvironment.
C16_EveryLetterBegins ==
    [][LetterBeforeEgin => CountsBegin]_vars

\* C16: in stControlSequence a letter that the bytes egin follow counts an
\* environment, five characters and no command, skips the four bytes and
\* enters stEnvironment when the letter is b; any other letter starts a
\* command: one command, one character, nothing skipped, stCommand.
C16_OnlyBBegins ==
    [][LetterBeforeEgin =>
          IF U8_NEXT(str[i + 1], j).c = 98
          THEN CountsBegin
          ELSE /\ stats' = [stats EXCEPT ![lsCmd] = @ + 1,
                                          ![lsCharsCmdEnvir] = @ + 1]
               /\ j' = U8_NEXT(str[i + 1], j).j
               /\ state' = stCommand]_vars

\* \begin was read at the head of the first text.
C16_Witness ==
    /\ call = "latex" /\ pc = "chars" /\ i = 0
    /\ Spells(str[1], 0, <<92, 98, 101, 103, 105, 110>>) /\ j = 6
    /\ state = stEnvironment
    /\ stats[lsEnvir] = 1 /\ stats[lsCharsCmdEnvir] = 6 /\ stats[lsCmd] = 0

\* The record of stri_stats_latex for the elements from..to of str.
LatexOf(from, to) == stri_stats_latex(SubSeq(str, from, to)).stats

\* C17: a step of stri_stats_latex taken in stComment changes no counter
\* and leaves the state; the step that starts an element sets stStandard
\* and no open word and changes no counter.  Hence, between two elements,
\* the counters have grown over the last element by the record of that
\* element taken alone.
C17_CommentStaysElementStartsAfresh ==
    /\ [][/\ (call = "latex" /\ pc = "chars" /\ state = stComment) =>
                 stats' = stats /\ state' = stComment
          /\ (call = "latex" /\ pc = "loop" /\ pc' = "chars") =>
                 state' = stStandard /\ ~word' /\ j' = 0 /\ stats' = stats]_vars
    /\ [](call = "latex" /\ pc = "loop" /\ i >= 1 =>
            \A k \in lsCharsWord..lsEnvir :
                stats[k] = LatexOf(1, i - 1)[k] + LatexOf(i, i)[k])

\* Behind the comment % the letter of the second text was read as a word.
C17_Witness ==
    /\ call = "latex" /\ pc = "chars" /\ i = 1 /\ j = 1
    /\ str = << <<37>>, <<97>> >>
    /\ state = stStandard /\ word
    /\ stats[lsWords] = 1 /\ stats[lsCharsWord] = 1

\* The record of the running call for the elements from..to of str.
RecordOf(from, to) ==
    IF call = "general"
    THEN stri_stats_general(SubSeq(str, from, to)).stats
    ELSE stri_stats_latex(SubSeq(str, from, to)).stats

\* C18: between two elements and at the return, the record of
\* stri_stats_general and of stri_stats_latex over the elements processed
\* is, for every split of them into a collection A and a collection B
\* behind it, the field-wise sum of the record for A and the record for B;
\* and no step of either call decreases a counter.
C18_AdditiveNonDecreasing ==
    /\ [](call \in {"general", "latex"} /\ pc \in {"loop", "done"} =>
            \A m \in 0..i : \A k \in DOMAIN stats :
                stats[k] = RecordOf(1, m)[k] + RecordOf(m + 1, i)[k])
    /\ [][\A k \in DOMAIN stats :
             (call \in {"general", "latex"}) => stats'[k] >= stats[k]]_vars

\* Two texts of stri_stats_general were counted, each adding to the record.
C18_Witness ==
    /\ call = "general" /\ pc = "done" /\ Len(str) = 2
    /\ RecordOf(1, 1)[gsNumChars] = 1 /\ RecordOf(2, 2)[gsNumChars] = 1
    /\ stats[gsNumLines] = 2 /\ stats[gsNumChars] = 2

\* The values the local state takes while the text cs is scanned from s.
RECURSIVE StatesFrom(_, _)
StatesFrom(cs, s) ==
    {s.state} \cup (IF s.err # "" \/ s.j >= Len(cs) THEN {}
                    ELSE StatesFrom(cs, LatexChar(cs, s)))

StatesVisited(cs) ==
    StatesFrom(cs, [stats |-> ZeroStats(lsAll), j |-> 0, state |-> stStandard,
                    word |-> FALSE, err |-> ""])

\* C19 as stated: some text drives the state of stri_stats_latex to
\* stControlSymbol.
C19_ControlSymbolReachable ==
    call = "latex" =>
        \E v \in Vectors(LatexAtoms, MaxSize) : \E k \in 1..Len(v) :
            v[k] # NA_STRING /\ stControlSymbol \in StatesVisited(v[k])

\* C19: the state of stri_stats_latex is always one of stStandard,
\* stComment, stControlSequence, stCommand and stEnvironment, never
\* stControlSymbol, and the default branch of the switch is never taken;
\* a code point other than a letter and the line feed read in
\* stControlSequence counts one command and one character and leads to
\* stStandard.
C19_ControlSymbolNeverEntered ==
    /\ [](call = "latex" =>
            /\ state \in {stStandard, stComment, stControlSequence,
                           stCommand, stEnvironment}
            /\ err # MSG__DEBUG)
    /\ [][(/\ call = "latex" /\ pc = "chars" /\ state = stControlSequence
           /\ j < Len(str[i + 1])
           /\ ~IsUAlphabetic(U8_NEXT(str[i + 1], j).c)
           /\ U8_NEXT(str[i + 1], j).c # 10) =>
              /\ state' = stStandard
              /\ stats' = [stats EXCEPT ![lsCmd] = @ + 1,
                                         ![lsCharsCmdEnvir] = @ + 1]]_vars

\* A backslash and a code point that is no letter were read at the head
\* of the first text.
C19_Witness ==
    /\ call = "latex" /\ pc = "chars" /\ i = 0 /\ j = 2
    /\ str[1][1] = 92 /\ ~IsUAlphabetic(str[1][2]) /\ str[1][2] < 128
    /\ state = stStandard
    /\ stats[lsCmd] = 1 /\ stats[lsCharsCmdEnvir] = 2

\* The byte offset of the % at which the scan of cs from s enters
\* stComment, or the length of cs when it never does.
RECURSIVE CommentFrom(_, _)
CommentFrom(cs, s) ==
    IF s.err # "" \/ s.j >= Len(cs) THEN Len(cs)
    ELSE LET t == LatexChar(cs, s)
         IN  IF t.state = stComment /\ s.state # stComment THEN s.j
             ELSE CommentFrom(cs, t)

CommentOpens(cs) ==
    CommentFrom(cs, [stats |-> ZeroStats(lsAll), j |-> 0, state |-> stStandard,
                     word |-> FALSE, err |-> ""])

\* CharsWord + CharsCmdEnvir + CharsWhite of the record st.
CharsCounted(st) == st[lsCharsWord] + st[lsCharsCmdEnvir] + st[lsCharsWhite]

\* C20: while stri_stats_latex scans an element, CharsWord, CharsCmdEnvir
\* and CharsWhite together have grown over the element by the number of
\* code points read so far, the bytes skipped behind \begin and \end
\* included, as long as no comment has opened, and by the number of code
\* points ahead of the comment-opening % from then on; that % is a byte
\* read outside stControlSequence.
C20_EachCodePointCountedOnce ==
    (call = "latex" /\ pc = "chars") =>
        LET cs == str[i + 1]
            grown == CharsCounted(stats) - CharsCounted(LatexOf(1, i))
        IN  IF state # stComment
            THEN grown = CodePointsBefore(cs, j, 0)
            ELSE /\ CommentOpens(cs) < j
                 /\ cs[CommentOpens(cs) + 1] = 37
                 /\ grown = CodePointsBefore(cs, CommentOpens(cs), 0)

\* \begin% was read at the head of the first text: six characters counted.
C20_Witness ==
    /\ call = "latex" /\ pc = "chars" /\ i = 0 /\ j = 7
    /\ str[1] = <<92, 98, 101, 103, 105, 110, 37>>
    /\ state = stComment
    /\ CharsCounted(stats) = 6 /\ stats[lsCharsCmdEnvir] = 6

---------------------------------------------------------------------------
(* Properties of the location calls, under SpecLocate.                     *)

\* Whether the text cs holds a line feed.
HasLineFeed(cs) == cs # NA_STRING /\ \E k \in 1..Len(cs) : cs[k] = 10

\* The text and the label selected for the 0-based index k of the result.
TextAt(k) == IF call = "boundaries" THEN ContainerGet(str, k) ELSE str[k + 1]
LabelAt(k) == IF call = "boundaries" THEN ContainerGet(boundary, k) ELSE "word"

\* Whether the loop skips the index k with the row of NAs.
Skipped(k) ==
    IF call = "boundaries"
    THEN TextAt(k) = NA_STRING \/ LabelAt(k) = NA_LABEL \/ Len(TextAt(k)) = 0
    ELSE TextAt(k) = NA_STRING

\* The errors a location call raises.
LocateErrors ==
    {MSG__INCORRECT_MATCH_OPTION}
        \cup {EngineFailure(f) : f \in FailPoints \ {"none"}}

\* C2 as stated: a location call whose batch holds a text with U+000A
\* fails, so it never returns a list.
C2_LineFeedFailsLocate ==
    (\E k \in 1..Len(str) : HasLineFeed(str[k])) => pc # "done"

\* C2, amended: the location calls never raise the error of an embedded line
\* feed; they fail with MSG__INCORRECT_MATCH_OPTION or with the error of an
\* ICU call only, and a text that holds U+000A is segmented like any other:
\* stri_locate_boundaries stores a matrix of at least one interval for it,
\* and stri_locate_words one interval per run of letters.
C2_LineFeedSegmented ==
    /\ err # MSG__NEWLINE_FOUND
    /\ pc = "error" => err \in LocateErrors
    /\ \A k \in 0..(i - 1) :
          HasLineFeed(TextAt(k)) /\ ~Skipped(k) =>
              /\ nset[k + 1] = 1
              /\ Len(ret[k + 1]) >= 1
              /\ call = "boundaries" => ret[k + 1] # stri__matrix_NA_INTEGER
              /\ call = "words" =>
                    (ret[k + 1] # stri__matrix_NA_INTEGER
                        <=> \E m \in 1..Len(TextAt(k)) : TextAt(k)[m] = 195)

\* A line-break call returned two intervals for a text with a line feed
\* inside.
C2_Witness ==
    /\ call = "boundaries" /\ pc = "done"
    /\ \E k \in 0..(i - 1) :
          /\ HasLineFeed(TextAt(k)) /\ LabelAt(k) = "line-break"
          /\ Len(ret[k + 1]) = 2

\* What the call on the text and the label of the 0-based index k alone
\* stores: the row of NAs for a skipped index, the intervals of the text
\* under the kind of the label otherwise.
Expected(k) ==
    LET cs   == TextAt(k)
        kind == stri__match_arg(LabelAt(k), boundary_opts)
    IN  IF Skipped(k) THEN stri__matrix_NA_INTEGER
        ELSE IF kind < 0 THEN <<>>
        ELSE IF call = "boundaries"
        THEN BoundariesAns(cs, BoundariesOccurences(BriterNext(kind, cs, 0), 0))
        ELSE WordsResult(cs, WordsOccurences(BriterNext(kind, cs, 0), 0))

\* C4: every index the loop has passed was stored exactly once, with the
\* result of its own text and label (the row of NAs for an NA text); no
\* index ahead of the loop was stored; a returned list is stored at every
\* index.
C4_EachIndexOnce ==
    /\ \A idx \in 1..vectorize_length :
          IF idx <= i
          THEN nset[idx] = 1 /\ ret[idx] = Expected(idx - 1)
          ELSE nset[idx] = 0 /\ ret[idx] = <<>>
    /\ pc = "done" => i = vectorize_length

\* A returned list whose first text is NA, under a recycled label, followed
\* by a text with intervals of its own.
C4_Witness ==
    /\ call = "boundaries" /\ pc = "done"
    /\ Len(str) >= 2 /\ Len(boundary) = 1
    /\ str[1] = NA_STRING
    /\ ret[1] = stri__matrix_NA_INTEGER
    /\ ret[2] # stri__matrix_NA_INTEGER /\ Len(ret[2]) >= 2

\* The kind the label of the index k stands for, -1 if none.
KindAt(k) == stri__match_arg(LabelAt(k), boundary_opts)

\* Whether the label of the index k, a label that is looked at, is not one
\* of the accepted.
BadAt(k) == call = "boundaries" /\ ~Skipped(k) /\ KindAt(k) < 0

\* The indices below n that are not skipped, ascending.
RECURSIVE ProcessedBelow(_)
ProcessedBelow(n) ==
    IF n = 0 THEN <<>>
    ELSE IF Skipped(n - 1) THEN ProcessedBelow(n - 1)
    ELSE Append(ProcessedBelow(n - 1), n - 1)

\* C5 as stated: with a label in boundary that is not one of the four, the
\* call does not return, and when MSG__INCORRECT_MATCH_OPTION is raised no
\* iterator was created and no result stored.
C5_BadLabelFailsFirst ==
    (call = "boundaries" /\ \E k \in 1..Len(boundary) :
        boundary[k] # NA_LABEL /\ stri__match_arg(boundary[k], boundary_opts) < 0)
    => /\ pc # "done"
       /\ pc = "error" /\ err = MSG__INCORRECT_MATCH_OPTION =>
             /\ heap.engines = 0
             /\ \A idx \in 1..vectorize_length : nset[idx] = 0

\* C5, amended: a label is looked at only when the loop reaches an index
\* whose text is neither NA nor empty and whose label is not NA.  The loop
\* never passes such an index with a label that is not one of the four: the
\* call fails there with MSG__INCORRECT_MATCH_OPTION and with no other
\* error, nothing being stored for the index, while the indices before it
\* have their results and an iterator was created if one of them reached
\* it.  A call that returns had no such index.
C5_BadLabelFailsAtElement ==
    /\ \A k \in 0..(i - 1) : ~BadAt(k)
    /\ pc = "error" /\ err = MSG__INCORRECT_MATCH_OPTION =>
          /\ i < vectorize_length /\ BadAt(i)
          /\ nset[i + 1] = 0
          /\ \A k \in 0..(i - 1) : nset[k + 1] = 1
          /\ heap.engines = 0 <=> ProcessedBelow(i) = <<>>
    /\ pc = "error" /\ call = "boundaries" /\ BadAt(i) =>
          err = MSG__INCORRECT_MATCH_OPTION
    /\ pc = "done" => \A k \in 0..(vectorize_length - 1) : ~BadAt(k)

\* The call failed on the label of its second element after an iterator
\* was created and a matrix stored for the first.
C5_Witness ==
    /\ call = "boundaries" /\ pc = "error"
    /\ err = MSG__INCORRECT_MATCH_OPTION
    /\ i = 1 /\ heap.engines = 1
    /\ nset[1] = 1 /\ ret[1] # stri__matrix_NA_INTEGER

\* What a call of stri_locate_boundaries on the one text cs and the one
\* label stores: the iterator is created, cs opened and bound, and the
\* boundaries collected.
SingleElementCall(cs, label) ==
    LET h0 == [engines |-> 0, texts |-> 0, live |-> {}, released |-> <<>>]
        o  == BoundariesOpen(NULL, -1, stri__match_arg(label, boundary_opts), h0)
        u  == utext_openUTF8(NULL, cs, o.heap)
        b  == [o.briter EXCEPT !.text = u.ut.text]
    IN  BoundariesAns(cs, BoundariesOccurences(BriterNext(b.kind, b.text, 0), 0))

\* C6: in stri_locate_boundaries the iterator held behind an element that
\* reached it is of the kind of that element and bound to its text, however
\* many elements were skipped since, and the matrix stored for every such
\* element is the one a call on that element alone stores.
C6_ReuseTransparent ==
    call = "boundaries" =>
        /\ \A k \in 0..(i - 1) :
              ~Skipped(k) => ret[k + 1] = SingleElementCall(TextAt(k), LabelAt(k))
        /\ pc = "loop" /\ ProcessedBelow(i) # <<>> =>
              LET p == ProcessedBelow(i)[Len(ProcessedBelow(i))] IN
              /\ briter # NULL /\ briter.kind = KindAt(p)
              /\ last_boundary = KindAt(p)
              /\ briter.text = TextAt(p) /\ str_text.text = TextAt(p)
        /\ pc = "loop" /\ ProcessedBelow(i) = <<>> =>
              briter = NULL /\ last_boundary = -1

\* Two elements of different kinds were located one after the other, and
\* the matrix of the second is not the one the kind of the first gives.
C6_Witness ==
    /\ call = "boundaries" /\ pc = "done"
    /\ \E k \in 1..(i - 1) :
          /\ ~Skipped(k - 1) /\ ~Skipped(k)
          /\ KindAt(k - 1) # KindAt(k)
          /\ ret[k + 1] # SingleElementCall(TextAt(k), LabelAt(k - 1))

\* The number of places at which two adjacent elements of s differ.
Changes(s) == Cardinality({m \in 1..(Len(s) - 1) : s[m] # s[m + 1]})

\* The kinds of the elements below n that are not skipped.
KindsBelow(n) == [m \in 1..Len(ProcessedBelow(n)) |-> KindAt(ProcessedBelow(n)[m])]

\* C7 as stated: a returned call of stri_locate_boundaries has created one
\* iterator more than the kind changed along its elements, and one of
\* stri_locate_words exactly one.
C7_KindChangesPlusOne ==
    pc = "done" =>
        heap.engines = IF call = "boundaries"
                       THEN Changes(KindsBelow(vectorize_length)) + 1
                       ELSE 1

\* The iterators created up to the index n of stri_locate_boundaries: none
\* if every element below n was skipped, else one more than the kind
\* changed.
CreatedBelow(n) ==
    IF ProcessedBelow(n) = <<>> THEN 0 ELSE Changes(KindsBelow(n)) + 1

\* C7, amended: stri_locate_boundaries creates an iterator for an element
\* that reaches the iterator exactly when its kind differs from the kind of
\* the last such element or there was none, so that a call has created one
\* iterator more than the kind changed if an element reached the iterator
\* and none otherwise; a creation that fails is attempted only where the
\* kind changed and counts as none.  stri_locate_words creates one iterator
\* ahead of its loop and none in it.
C7_ConstructionsFollowKinds ==
    /\ call = "boundaries" =>
          /\ pc \in {"loop", "done"} => heap.engines = CreatedBelow(i)
          /\ pc = "error" =>
                IF err \in {EngineFailure("utext_openUTF8"), EngineFailure("setText")}
                THEN heap.engines = CreatedBelow(i + 1)
                ELSE heap.engines = CreatedBelow(i)
          /\ pc = "error" /\ err = EngineFailure("create") =>
                CreatedBelow(i + 1) = CreatedBelow(i) + 1
    /\ call = "words" =>
          /\ pc \in {"loop", "done"} => heap.engines = 1
          /\ pc = "open" => heap.engines = 0
          /\ pc = "error" =>
                heap.engines = IF err = EngineFailure("create") THEN 0 ELSE 1

\* A call returned after two adjacent elements of one kind reached the
\* iterator: one iterator was created.
C7_Witness ==
    /\ call = "boundaries" /\ pc = "done"
    /\ Len(KindsBelow(i)) >= 2
    /\ \E m \in 1..(Len(KindsBelow(i)) - 1) : KindsBelow(i)[m] = KindsBelow(i)[m + 1]
    /\ heap.engines = 1

\* The handles of the tag that are live.
LiveOf(tag) == {h \in heap.live : h[1] = tag}

\* How often the handle was released.
ReleasesOf(tag, id) ==
    Cardinality({m \in 1..Len(heap.released) : heap.released[m] = <<tag, id>>})

\* C8: at every point of a location call at most one iterator and at most
\* one text are live, namely those briter and str_text point at, and no
\* handle is released twice; when the call has ended, by its return or by
\* any of its errors, nothing is live and every iterator and every text
\* that was created has been released exactly once.
C8_ResourcesReleased ==
    /\ LiveOf("briter") = IF briter = NULL THEN {} ELSE {<<"briter", briter.id>>}
    /\ LiveOf("utext") = IF str_text = NULL THEN {} ELSE {<<"utext", str_text.id>>}
    /\ \A id \in 1..heap.engines :
          ReleasesOf("briter", id) = IF <<"briter", id>> \in heap.live THEN 0 ELSE 1
    /\ \A id \in 1..heap.texts :
          ReleasesOf("utext", id) = IF <<"utext", id>> \in heap.live THEN 0 ELSE 1
    /\ Len(heap.released) + Cardinality(heap.live) = heap.engines + heap.texts
    /\ pc \in {"done", "error"} =>
          heap.live = {} /\ briter = NULL /\ str_text = NULL

\* The binding of the text failed at the second element, behind the
\* creation of a second iterator: both iterators and the text are released.
C8_Witness ==
    /\ call = "boundaries" /\ pc = "error" /\ err = EngineFailure("setText")
    /\ heap.engines = 2 /\ heap.texts = 1
    /\ Len(heap.released) = 3 /\ heap.live = {}

\* Whether the code point is one of a word.
IsWordChar(c) == IsUAlphabetic(c) \/ IsDigit(c)

\* The positions at which a run of word code points starts in cps.
RunStarts(cps) ==
    {m \in 1..Len(cps) : IsWordChar(cps[m]) /\ (m = 1 \/ ~IsWordChar(cps[m - 1]))}

\* Whether the matrix holds the runs of word code points of cps and nothing
\* else, in their order; the row of NAs if there is no run.
OnlyWords(matrix, cps) ==
    IF RunStarts(cps) = {} THEN matrix = stri__matrix_NA_INTEGER
    ELSE /\ Len(matrix) = Cardinality(RunStarts(cps))
         /\ \A m \in 1..Len(matrix) : matrix[m][1] \in RunStarts(cps)
         /\ \A m \in 1..(Len(matrix) - 1) : matrix[m][1] < matrix[m + 1][1]

\* C9 as stated: whatever the call, the matrix of an element segmented with
\* the word kind holds no interval of the status UBRK_WORD_NONE, and is the
\* row of NAs if no interval is left.
C9_WordKindFiltered ==
    \A k \in 0..(i - 1) :
        ~Skipped(k) /\ KindAt(k) = 3 => OnlyWords(ret[k + 1], CodePoints(TextAt(k), 0))

\* C9, amended: stri_locate_words stores the intervals whose status is not
\* UBRK_WORD_NONE, in their order, and the row of NAs if there is none;
\* stri_locate_boundaries with the label "word" stores every interval of
\* the word iterator, those of the status UBRK_WORD_NONE included, so that
\* its matrix for a text that is not empty is never the row of NAs.
C9_WordsFilteredBoundariesNot ==
    \A k \in 0..(i - 1) :
        ~Skipped(k) /\ KindAt(k) = 3 =>
            LET cps == CodePoints(TextAt(k), 0) IN
            IF call = "words" THEN OnlyWords(ret[k + 1], cps)
            ELSE /\ ret[k + 1] # stri__matrix_NA_INTEGER
                 /\ Len(ret[k + 1]) = Cardinality(RunStarts(cps))
                      + Cardinality({m \in 1..Len(cps) : ~IsWordChar(cps[m])})
                 /\ \A m \in 1..(Len(ret[k + 1]) - 1) :
                       ret[k + 1][m][1] < ret[k + 1][m + 1][1]

\* stri_locate_words returned two words of a text that has other code
\* points between them.
C9_Witness ==
    /\ call = "words" /\ pc = "done"
    /\ \E k \in 0..(i - 1) :
          /\ TextAt(k) # NA_STRING
          /\ Len(ret[k + 1]) = 2
          /\ Len(CodePoints(TextAt(k), 0)) >= 3

C11_SkipLeavesEngine ==
    [][(/\ call = "boundaries" /\ pc = "loop" /\ i < vectorize_length
        /\ (TextAt(i) = NA_STRING \/ Len(TextAt(i)) = 0))
       => /\ pc' = "loop" /\ err' = ""
          /\ i' = i + 1
          /\ ret' = [ret EXCEPT ![i + 1] = stri__matrix_NA_INTEGER]
          /\ heap' = heap
          /\ briter' = briter
          /\ str_text' = str_text
          /\ last_boundary' = last_boundary]_vars

\* An element of length zero was skipped behind an element that reached
\* the iterator: the iterator is the one of that element still.
C11_Witness ==
    /\ call = "boundaries" /\ pc = "loop" /\ i = 2
    /\ ~Skipped(0)
    /\ TextAt(1) # NA_STRING /\ Len(TextAt(1)) = 0 /\ LabelAt(1) # NA_LABEL
    /\ ret[2] = stri__matrix_NA_INTEGER
    /\ briter # NULL /\ briter.id = 1 /\ briter.text = TextAt(0)
    /\ last_boundary = KindAt(0) /\ heap.engines = 1 /\ heap.released = <<>>

========================================================================
